---- MODULE Spec2Model ----
(***************************************************************************)
(* Model of the RTC driver of nrf52-hal-common (src/rtc.rs): one physical  *)
(* RTC instance, the handle that stands for it, the typestate wrapper      *)
(* Rtc<T, M> and the registers the driver touches.                         *)
(*                                                                         *)
(* The driver is single-threaded; the peripheral runs concurrently with    *)
(* it. Every driver operation is one register access and is one action,    *)
(* except get_event_triggered, whose `modify` is a volatile read followed  *)
(* by a volatile write: the peripheral may latch a flag between the two,   *)
(* so the read and the write are two steps of the same call.               *)
(***************************************************************************)
EXTENDS Integers, FiniteSets, Sequences, TLC

\* ---------------------------------------------------------------- bounds
\* number of distinct stimuli one behaviour exercises
MaxStimuli == 1
\* the free-running counter is observed up to this value
MaxCounter == 1

\* ------------------------------------------------------------- constants
\* enum RtcInterrupt
RtcInterrupt == {"Tick", "Overflow", "Compare0", "Compare1", "Compare2", "Compare3"}
\* enum RtcCompareReg
RtcCompareReg == {"Compare0", "Compare1", "Compare2", "Compare3"}
\* the mode tags (zero size type state structs)
Modes == {"Stopped", "Started"}
\* `1 << 12`, the bound tested by set_prescaler
PrescalerLimit == 2 ^ 12
\* `1 << 24`, the bound tested by set_compare
CompareLimit == 2 ^ 24

\* the u32 arguments tried for set_prescaler and set_compare: both sides of
\* each limit, and the largest integer the model checker represents
LargeInput == 2 ^ 30 + (2 ^ 30 - 1)
PrescalerInputs == {0, PrescalerLimit - 1, PrescalerLimit, LargeInput}
CompareInputs == {0, CompareLimit - 1, CompareLimit, LargeInput}

\* the stimuli in the order of the enum, cut into groups of MaxStimuli: a
\* behaviour exercises the stimuli of one group and the compare registers of
\* the same names
StimulusOrder == <<"Tick", "Overflow", "Compare0", "Compare1", "Compare2", "Compare3">>
Scenarios ==
    {{StimulusOrder[i] : i \in {j \in 1..Len(StimulusOrder) :
                                   (j - 1) \div MaxStimuli = k}} :
        k \in 0..((Len(StimulusOrder) - 1) \div MaxStimuli)}

VARIABLES
    handle,     \* TRUE while the raw peripheral handle (RTC0) is free
    mode,       \* _mode of the live wrapper, "none" when there is no wrapper
    task,       \* last counter task written: "none", "start" or "stop"
    inten,      \* stimuli whose interrupt-enable bit is set
    evten,      \* stimuli whose event-enable bit is set
    events,     \* events_tick / events_ovrflw / events_compare[i], 0 or 1
    cc,         \* cc[0..3]
    prescaler,  \* prescaler register
    counter,    \* counter register
    pc,         \* position inside get_event_triggered, with its locals
    op,         \* the last step taken (driver or peripheral), with the call's result
    focus,      \* the stimuli (and compare registers) this behaviour exercises
    hist,       \* what the claims need of the past: the registers as they were at
                \* an enable_counter on a Stopped wrapper that no other driver
                \* call has followed yet
    pins        \* the two wired pins of the open-drain test (P0.28 <-> P0.29):
                \* whether the test configured them, and the level set on the output

vars ==
    <<handle, mode, task, inten, evten, events, cc, prescaler, counter, pc, op, focus,
      hist, pins>>

regs == <<task, inten, evten, events, cc, prescaler, counter>>

\* ------------------------------------------------------ register accesses
\* RegIndex with the arm of Compare3 copied from the arm of Compare2
RegIndexCopiedArm(reg) ==
    CASE reg = "Compare0" -> 0
      [] reg = "Compare1" -> 1
      [] reg = "Compare2" -> 2
      [] reg = "Compare3" -> 2

\* match reg { Compare0 => 0, ... }
RegIndex(reg) ==
    CASE reg = "Compare0" -> 0
      [] reg = "Compare1" -> 1
      [] reg = "Compare2" -> 2
      [] reg = "Compare3" -> 3

\* cc[i].write(|w| w.bits(val)): the register keeps its 24 implemented bits
WriteCompare(val) == val % CompareLimit

\* prescaler.write(|w| w.bits(val)): the register keeps its 12 implemented bits
WritePrescaler(val) == val % PrescalerLimit

\* SetVal with the two branches exchanged
SetValExchanged(clear_on_read) == IF clear_on_read THEN 1 ELSE 0

\* `if clear_on_read { 0 } else { 1 }`
SetVal(clear_on_read) == IF clear_on_read THEN 0 ELSE 1

\* Triggered computed from the value written instead of the value read
TriggeredFromWritten(orig, set_val) == set_val = 1

\* `orig == 1`
Triggered(orig, set_val) == orig = 1

Idle ==
    [state |-> "idle", evt |-> "none", clear |-> FALSE, orig |-> 0,
     trig |-> FALSE, repeat |-> FALSE]

\* the record of a completed step: its name, its arguments (stimulus, clear
\* flag, compare register, u32 value) and its results; repeat and pair tell
\* what the step followed (a like get_event_triggered that returned true, an
\* enable_counter on a Stopped wrapper)
Done(name, ret) ==
    [name |-> name, evt |-> "none", clear |-> FALSE, reg |-> "none", val |-> 0,
     ret |-> ret, triggered |-> FALSE, value |-> 0, repeat |-> FALSE, pair |-> FALSE]

\* the record of a completed step that took a stimulus
DoneOn(name, evt) == [Done(name, "unit") EXCEPT !.evt = evt]

\* a wrapper exists and no call is in progress on it
Callable == mode \in Modes /\ pc.state = "idle"

\* nothing remembered
NoHist ==
    [open |-> FALSE, quiet |-> FALSE,
     counter |-> 0, events |-> [s \in RtcInterrupt |-> 0], cc |-> [i \in 0..3 |-> 0],
     prescaler |-> 0, inten |-> {}, evten |-> {}]

\* enable_counter on a Stopped wrapper: the registers are remembered as they are
Remember ==
    [open |-> TRUE, quiet |-> TRUE,
     counter |-> counter, events |-> events, cc |-> cc,
     prescaler |-> prescaler, inten |-> inten, evten |-> evten]

\* the peripheral acted after the remembered enable_counter
Disturbed == IF hist.open THEN [hist EXCEPT !.quiet = FALSE] ELSE hist

\* a program that uses the RTC driver configures no pin
NoPins == [configured |-> FALSE, out |-> "High"]

\* tests::init: P0.28 a floating input, P0.29 an open-drain output
\* (Standard0Disconnect1) set to Level::High
TestPins == [configured |-> TRUE, out |-> "High"]

\* ------------------------------------------------------------------ Init
\* a behaviour is a program that uses the RTC driver, or the open-drain test
Init ==
    /\ handle = TRUE
    /\ mode = "none"
    /\ task = "none"
    /\ inten = {}
    /\ evten = {}
    /\ events = [s \in RtcInterrupt |-> 0]
    /\ cc = [i \in 0..3 |-> 0]
    /\ prescaler = 0
    /\ counter = 0
    /\ pc = Idle
    /\ op = Done("reset", "unit")
    /\ focus \in Scenarios
    /\ hist = NoHist
    /\ pins \in {NoPins, TestPins}

\* ------------------------------------------------------------ operations
\* constrain that borrows the handle instead of consuming it
constrain_keeps_handle ==
    /\ ~pins.configured
    /\ handle
    /\ handle' = handle
    /\ mode' = "Stopped"
    /\ op' = Done("constrain", "unit")
    /\ UNCHANGED <<regs, pc, focus, pins>>
    /\ hist' = NoHist

\* constrain that writes the stop task before tagging the wrapper Stopped
constrain_stops_counter ==
    /\ ~pins.configured
    /\ handle
    /\ handle' = FALSE
    /\ mode' = "Stopped"
    /\ task' = "stop"
    /\ op' = Done("constrain", "unit")
    /\ UNCHANGED <<inten, evten, events, cc, prescaler, counter, pc, focus, pins>>
    /\ hist' = NoHist

\* RtcExt::constrain(self) -> Rtc<Self, Stopped>
\* (the open-drain test never constrains an RTC)
constrain ==
    /\ ~pins.configured
    /\ handle
    /\ handle' = FALSE
    /\ mode' = "Stopped"
    /\ op' = Done("constrain", "unit")
    /\ UNCHANGED <<regs, pc, focus, pins>>
    /\ hist' = NoHist

\* enable_counter that starts the counter and keeps the tag it was given
enable_counter_keeps_tag ==
    /\ mode \in {"Stopped", "Started"} /\ pc.state = "idle"
    /\ task' = "start"
    /\ mode' = mode
    /\ op' = [name |-> "enable_counter", evt |-> "none", clear |-> FALSE,
              reg |-> "none", val |-> 0, ret |-> "unit",
              triggered |-> FALSE, value |-> 0, repeat |-> FALSE, pair |-> FALSE]
    /\ UNCHANGED <<handle, inten, evten, events, cc, prescaler, counter, pc, focus, pins>>
    /\ hist' = IF mode = "Stopped" THEN Remember ELSE NoHist

\* Rtc<T, M>::enable_counter(self) -> Rtc<T, Started>
enable_counter ==
    /\ Callable
    /\ task' = "start"
    /\ mode' = "Started"
    /\ op' = Done("enable_counter", "unit")
    /\ UNCHANGED <<handle, inten, evten, events, cc, prescaler, counter, pc, focus, pins>>
    /\ hist' = IF mode = "Stopped" THEN Remember ELSE NoHist

\* disable_counter that also clears the counter
disable_counter_clears_counter ==
    /\ Callable
    /\ task' = "stop"
    /\ counter' = 0
    /\ mode' = "Stopped"
    /\ op' = [Done("disable_counter", "unit") EXCEPT !.pair = hist.open]
    /\ UNCHANGED <<handle, inten, evten, events, cc, prescaler, pc, focus, pins>>
    /\ hist' = NoHist

\* disable_counter that writes tasks_start
disable_counter_writes_start ==
    /\ Callable
    /\ task' = "start"
    /\ mode' = "Stopped"
    /\ op' = [Done("disable_counter", "unit") EXCEPT !.pair = hist.open]
    /\ UNCHANGED <<handle, inten, evten, events, cc, prescaler, counter, pc, focus, pins>>
    /\ hist' = NoHist

\* Rtc<T, M>::disable_counter(self) -> Rtc<T, Stopped>
disable_counter ==
    /\ Callable
    /\ task' = "stop"
    /\ mode' = "Stopped"
    /\ op' = [Done("disable_counter", "unit") EXCEPT !.pair = hist.open]
    /\ UNCHANGED <<handle, inten, evten, events, cc, prescaler, counter, pc, focus, pins>>
    /\ hist' = NoHist

\* Rtc<T, M>::enable_interrupt(&mut self, int)
enable_interrupt(int) ==
    /\ Callable
    /\ inten' = inten \cup {int}
    /\ op' = DoneOn("enable_interrupt", int)
    /\ UNCHANGED <<handle, mode, task, evten, events, cc, prescaler, counter, pc, focus, pins>>
    /\ hist' = NoHist

\* disable_interrupt that writes 0 to the bit of intenclr, which clears nothing
disable_interrupt_writes_zero(int) ==
    /\ Callable
    /\ inten' = inten
    /\ op' = DoneOn("disable_interrupt", int)
    /\ UNCHANGED <<handle, mode, task, evten, events, cc, prescaler, counter, pc, focus, pins>>
    /\ hist' = NoHist

\* Rtc<T, M>::disable_interrupt(&mut self, int)
disable_interrupt(int) ==
    /\ Callable
    /\ inten' = inten \ {int}
    /\ op' = DoneOn("disable_interrupt", int)
    /\ UNCHANGED <<handle, mode, task, evten, events, cc, prescaler, counter, pc, focus, pins>>
    /\ hist' = NoHist

\* enable_event that writes intenset instead of evtenset
enable_event_writes_intenset(evt) ==
    /\ Callable
    /\ inten' = inten \cup {evt}
    /\ op' = DoneOn("enable_event", evt)
    /\ UNCHANGED <<handle, mode, task, evten, events, cc, prescaler, counter, pc, focus, pins>>
    /\ hist' = NoHist

\* Rtc<T, M>::enable_event(&mut self, evt)
enable_event(evt) ==
    /\ Callable
    /\ evten' = evten \cup {evt}
    /\ op' = DoneOn("enable_event", evt)
    /\ UNCHANGED <<handle, mode, task, inten, events, cc, prescaler, counter, pc, focus, pins>>
    /\ hist' = NoHist

\* Rtc<T, M>::disable_event(&mut self, evt)
disable_event(evt) ==
    /\ Callable
    /\ evten' = evten \ {evt}
    /\ op' = DoneOn("disable_event", evt)
    /\ UNCHANGED <<handle, mode, task, inten, events, cc, prescaler, counter, pc, focus, pins>>
    /\ hist' = NoHist

\* get_event_triggered, the read half of `modify`: orig = r.bits()
get_event_triggered_read(evt, clear_on_read) ==
    /\ Callable
    /\ pc' = [state |-> "write", evt |-> evt, clear |-> clear_on_read,
              orig |-> events[evt], trig |-> FALSE,
              repeat |-> /\ op.name = "get_event_triggered"
                         /\ op.evt = evt
                         /\ op.clear = clear_on_read
                         /\ op.triggered]
    /\ op' = DoneOn("modify", evt)
    /\ UNCHANGED <<handle, mode, regs, focus, pins>>
    /\ hist' = NoHist

\* get_event_triggered, the write half of `modify`: w.bits(set_val),
\* then the return of `orig == 1`
get_event_triggered_write ==
    /\ pc.state = "write"
    /\ events' = [events EXCEPT ![pc.evt] = SetVal(pc.clear)]
    /\ op' = [DoneOn("get_event_triggered", pc.evt) EXCEPT
                  !.clear = pc.clear,
                  !.triggered = Triggered(pc.orig, SetVal(pc.clear)),
                  !.repeat = pc.repeat /\ ~pc.trig]
    /\ pc' = Idle
    /\ UNCHANGED <<handle, mode, task, inten, evten, cc, prescaler, counter, focus, pins>>
    /\ hist' = NoHist

\* set_compare whose range test is `val > (1 << 24)`
set_compare_off_by_one(reg, val) ==
    /\ Callable
    /\ IF val > CompareLimit
         THEN /\ op' = [Done("set_compare", "CompareOutOfRange") EXCEPT !.reg = reg, !.val = val]
              /\ cc' = cc
         ELSE /\ cc' = [cc EXCEPT ![RegIndex(reg)] = WriteCompare(val)]
              /\ op' = [Done("set_compare", "Ok") EXCEPT !.reg = reg, !.val = val]
    /\ UNCHANGED <<handle, mode, task, inten, evten, events, prescaler, counter, pc, focus, pins>>
    /\ hist' = NoHist

\* Rtc<T, M>::set_compare(&mut self, reg, val) -> Result<(), Error>
set_compare(reg, val) ==
    /\ Callable
    /\ IF val >= CompareLimit
         THEN /\ op' = [Done("set_compare", "CompareOutOfRange") EXCEPT !.reg = reg, !.val = val]
              /\ cc' = cc
         ELSE /\ cc' = [cc EXCEPT ![RegIndex(reg)] = WriteCompare(val)]
              /\ op' = [Done("set_compare", "Ok") EXCEPT !.reg = reg, !.val = val]
    /\ UNCHANGED <<handle, mode, task, inten, evten, events, prescaler, counter, pc, focus, pins>>
    /\ hist' = NoHist

\* Rtc<T, M>::get_counter(&self) -> u32
get_counter ==
    /\ Callable
    /\ op' = [Done("get_counter", "unit") EXCEPT !.value = counter]
    /\ UNCHANGED <<handle, mode, regs, pc, focus, pins>>
    /\ hist' = NoHist

\* release that stops the counter before giving the handle back
release_stops_counter ==
    /\ Callable
    /\ mode' = "none"
    /\ handle' = TRUE
    /\ task' = "stop"
    /\ op' = Done("release", "unit")
    /\ UNCHANGED <<inten, evten, events, cc, prescaler, counter, pc, focus, pins>>
    /\ hist' = NoHist

\* Rtc<T, M>::release(self) -> T
release ==
    /\ Callable
    /\ mode' = "none"
    /\ handle' = TRUE
    /\ op' = Done("release", "unit")
    /\ UNCHANGED <<regs, pc, focus, pins>>
    /\ hist' = NoHist

\* set_prescaler without the range test, the register taking the bits as written
set_prescaler_unchecked(val) ==
    /\ Callable
    /\ mode = "Stopped"
    /\ prescaler' = val
    /\ op' = [Done("set_prescaler", "Ok") EXCEPT !.val = val]
    /\ UNCHANGED <<handle, mode, task, inten, evten, events, cc, counter, pc, focus, pins>>
    /\ hist' = NoHist

\* set_prescaler whose range test is `prescaler > (1 << 12)`
set_prescaler_off_by_one(val) ==
    /\ Callable
    /\ mode = "Stopped"
    /\ IF val > PrescalerLimit
         THEN /\ op' = [Done("set_prescaler", "PrescalerOutOfRange") EXCEPT !.val = val]
              /\ prescaler' = prescaler
         ELSE /\ prescaler' = WritePrescaler(val)
              /\ op' = [Done("set_prescaler", "Ok") EXCEPT !.val = val]
    /\ UNCHANGED <<handle, mode, task, inten, evten, events, cc, counter, pc, focus, pins>>
    /\ hist' = NoHist

\* Rtc<T, Stopped>::set_prescaler(&mut self, prescaler) -> Result<(), Error>
set_prescaler(val) ==
    /\ Callable
    /\ mode = "Stopped"
    /\ IF val >= PrescalerLimit
         THEN /\ op' = [Done("set_prescaler", "PrescalerOutOfRange") EXCEPT !.val = val]
              /\ prescaler' = prescaler
         ELSE /\ prescaler' = WritePrescaler(val)
              /\ op' = [Done("set_prescaler", "Ok") EXCEPT !.val = val]
    /\ UNCHANGED <<handle, mode, task, inten, evten, events, cc, counter, pc, focus, pins>>
    /\ hist' = NoHist

\* ------------------------------------------------------------ peripheral
\* the running counter latches the event flag of a stimulus
hw_event(s) ==
    /\ task = "start"
    /\ events' = [events EXCEPT ![s] = 1]
    /\ pc' = IF pc.state = "write" /\ pc.evt = s THEN [pc EXCEPT !.trig = TRUE] ELSE pc
    /\ op' = DoneOn("hw_event", s)
    /\ UNCHANGED <<handle, mode, task, inten, evten, cc, prescaler, counter, focus, pins>>
    /\ hist' = Disturbed

\* the running counter advances
hw_count ==
    /\ task = "start"
    /\ counter < MaxCounter
    /\ counter' = (counter + 1) % CompareLimit
    /\ op' = Done("hw_count", "unit")
    /\ UNCHANGED <<handle, mode, task, inten, evten, events, cc, prescaler, pc, focus, pins>>
    /\ hist' = Disturbed

\* ------------------------------------------------ the open-drain test
\* set_low that sets the output level High
set_low_sets_high ==
    /\ pins.configured
    /\ pins' = [pins EXCEPT !.out = "High"]
    /\ op' = Done("set_low", "Ok")
    /\ UNCHANGED <<handle, mode, regs, pc, focus, hist>>

\* output_pin.set_low(): the open-drain output drives the wire low
set_low ==
    /\ pins.configured
    /\ pins' = [pins EXCEPT !.out = "Low"]
    /\ op' = Done("set_low", "Ok")
    /\ UNCHANGED <<handle, mode, regs, pc, focus, hist>>

\* output_pin.set_high(): the open-drain output disconnects from the wire
set_high ==
    /\ pins.configured
    /\ pins' = [pins EXCEPT !.out = "High"]
    /\ op' = Done("set_high", "Ok")
    /\ UNCHANGED <<handle, mode, regs, pc, focus, hist>>

\* input_pin.is_low(): a wire driven low reads low; a disconnected wire with
\* no external pull-up floats and reads either level
is_low ==
    /\ pins.configured
    /\ \E low \in (IF pins.out = "Low" THEN {TRUE} ELSE BOOLEAN) :
           op' = Done("is_low", IF low THEN "Ok(true)" ELSE "Ok(false)")
    /\ UNCHANGED <<handle, mode, regs, pc, focus, hist, pins>>

\* ------------------------------------------------------------------ Next
Next ==
    \/ constrain
    \/ enable_counter
    \/ disable_counter
    \/ \E int \in focus : enable_interrupt(int)
    \/ \E int \in focus : disable_interrupt(int)
    \/ \E evt \in focus : enable_event(evt)
    \/ \E evt \in focus : disable_event(evt)
    \/ \E evt \in focus, clear_on_read \in BOOLEAN : get_event_triggered_read(evt, clear_on_read)
    \/ get_event_triggered_write
    \/ \E reg \in RtcCompareReg \cap focus, val \in CompareInputs : set_compare(reg, val)
    \/ get_counter
    \/ release
    \/ \E val \in PrescalerInputs : set_prescaler(val)
    \/ \E s \in focus : hw_event(s)
    \/ hw_count
    \/ set_low
    \/ set_high
    \/ is_low

Spec == Init /\ [][Next]_vars

TypeOK ==
    /\ handle \in BOOLEAN
    /\ mode \in Modes \cup {"none"}
    /\ task \in {"none", "start", "stop"}
    /\ inten \subseteq RtcInterrupt
    /\ evten \subseteq RtcInterrupt
    /\ events \in [RtcInterrupt -> {0, 1}]
    /\ \A i \in 0..3 : cc[i] \in 0..LargeInput
    /\ prescaler \in 0..LargeInput
    /\ counter \in 0..(CompareLimit - 1)
    /\ pc.state \in {"idle", "write"}
    /\ hist.open \in BOOLEAN
    /\ pins.out \in {"High", "Low"}

\* ---------------------------------------------------------------- claims
\* Every action records its own name, arguments and result in op, so a step
\* with op'.name = n is a step of the operation n, op' holds its arguments and
\* result, the unprimed variables are the state before the call and the
\* primed ones the state after it.
\* the operations that take &mut self or &self (configuration and reads);
\* "modify" is the read half of get_event_triggered
ConfigOps ==
    {"enable_interrupt", "disable_interrupt", "enable_event", "disable_event",
     "modify", "get_event_triggered", "set_compare", "set_prescaler", "get_counter"}

\* C1: a successful set_prescaler never writes the prescaler register while
\* the hardware counter is running, i.e. while the last counter task written
\* to the peripheral is start (set_prescaler itself writes no task).
C1_PrescalerNotWrittenWhileRunning ==
    (op.name = "set_prescaler" /\ op.ret = "Ok") => task # "start"

\* C2: set_prescaler is enabled only on a wrapper tagged Stopped, and a
\* set_prescaler call (successful or not) that follows an enable_counter has a
\* disable_counter in between: the last counter task is start exactly when an
\* enable_counter was called with no disable_counter after it.
C2_SetPrescalerOnlyAfterDisable ==
    /\ (ENABLED (\E val \in PrescalerInputs : set_prescaler(val))) => mode = "Stopped"
    /\ op.name = "set_prescaler" => task # "start"

\* C3: set_prescaler(v) returns Ok iff v < 4096 and PrescalerOutOfRange
\* otherwise; on Ok the prescaler register holds v, on failure no register
\* is written.
C3_SetPrescalerRange ==
    [][op'.name = "set_prescaler" =>
          /\ (op'.ret = "Ok") <=> (op'.val < 4096)
          /\ (op'.ret # "Ok") => (op'.ret = "PrescalerOutOfRange" /\ UNCHANGED regs)
          /\ (op'.ret = "Ok") => prescaler' = op'.val]_vars

\* a set_prescaler(4095) succeeded and a later set_prescaler(4096) was refused
C3_Witness ==
    /\ op.name = "set_prescaler" /\ op.val = 4096 /\ op.ret = "PrescalerOutOfRange"
    /\ prescaler = 4095

\* C4: in either mode, set_compare(ch, v) returns Ok iff v < 16777216 and
\* CompareOutOfRange otherwise; on failure no register is written.
C4_SetCompareRange ==
    [][op'.name = "set_compare" =>
          /\ mode \in {"Stopped", "Started"}
          /\ (op'.ret = "Ok") <=> (op'.val < 16777216)
          /\ (op'.ret # "Ok") => (op'.ret = "CompareOutOfRange" /\ UNCHANGED regs)]_vars

\* set_compare(Compare3, 16777216) was refused on a Started wrapper after
\* set_compare(Compare3, 16777215) had succeeded
C4_Witness ==
    /\ op.name = "set_compare" /\ op.reg = "Compare3" /\ op.val = 16777216
    /\ op.ret = "CompareOutOfRange"
    /\ mode = "Started"
    /\ cc[3] = 16777215

\* the compare register the claim calls channel ch of a variant of RtcCompareReg
C5_Channel(reg) ==
    CHOOSE ch \in 0..3 : reg = <<"Compare0", "Compare1", "Compare2", "Compare3">>[ch + 1]

\* C5: after set_compare(ch, v) with v < 2^24 the compare register of channel
\* ch reads exactly v and the other three compare registers are unchanged.
C5_SetCompareRoundTrip ==
    [][(op'.name = "set_compare" /\ op'.val < 16777216) =>
          /\ cc'[C5_Channel(op'.reg)] = op'.val
          /\ \A other \in 0..3 \ {C5_Channel(op'.reg)} : cc'[other] = cc[other]]_vars

\* set_compare(Compare2, 16777215) succeeded
C5_Witness ==
    /\ op.name = "set_compare" /\ op.reg = "Compare2" /\ op.val = 16777215 /\ op.ret = "Ok"
    /\ cc[0] = 0 /\ cc[1] = 0 /\ cc[2] = 16777215 /\ cc[3] = 0

\* C6: with the flag of s latched and no trigger during the call,
\* get_event_triggered(s, _) returns true; an immediate repeat of a call that
\* returned true returns false when both clear on read and true when neither
\* does (pc.repeat: the step before this call's read completed a call on the
\* same stimulus with the same clear_on_read that returned true).
C6_ClearOnRead ==
    [][op'.name = "get_event_triggered" =>
          /\ (events[pc.evt] = 1 /\ ~pc.trig) => op'.triggered
          /\ (pc.repeat /\ ~pc.trig) => (op'.triggered = ~pc.clear)]_vars

\* the immediate second get_event_triggered(s, true) returned false
C6_Witness ==
    op.name = "get_event_triggered" /\ op.repeat /\ op.clear /\ ~op.triggered

\* C7: the boolean returned by get_event_triggered is the value of the flag
\* before the write-back (the value the call read when the peripheral latched
\* the flag after the read), whatever value is written back.
C7_ReturnsValueBeforeWrite ==
    [][op'.name = "get_event_triggered" =>
          op'.triggered = (IF pc.trig THEN pc.orig = 1 ELSE events[pc.evt] = 1)]_vars

\* a call that writes 1 back returned false
C7_Witness ==
    op.name = "get_event_triggered" /\ ~op.clear /\ ~op.triggered

\* C8: when the peripheral latches the flag of s during a call
\* get_event_triggered(s, true), the call returns true or the flag is still
\* set after the call.
C8_EdgeNeverLost ==
    [][(op'.name = "get_event_triggered" /\ pc.trig /\ pc.clear) =>
          (op'.triggered \/ events'[pc.evt] = 1)]_vars

\* C9: enable_counter is applied only to a wrapper tagged Stopped and
\* disable_counter only to a wrapper tagged Started.
C9_OnlyTwoEdges ==
    [][/\ op'.name = "enable_counter" => mode = "Stopped"
       /\ op'.name = "disable_counter" => mode = "Started"]_vars

\* C10: enable_counter leaves the tag Started and the start task issued,
\* disable_counter leaves the tag Stopped and the stop task issued, both
\* return no error, and the configuration operations and reads leave the
\* tag unchanged.
C10_ModeChangesOnlyByCounterControl ==
    [][/\ op'.name = "enable_counter" =>
              (mode' = "Started" /\ task' = "start" /\ op'.ret = "unit")
       /\ op'.name = "disable_counter" =>
              (mode' = "Stopped" /\ task' = "stop" /\ op'.ret = "unit")
       /\ op'.name \in ConfigOps => mode' = mode]_vars

\* enable_counter has retagged a Stopped wrapper whose registers were configured
C10_Witness ==
    op.name = "enable_counter" /\ mode = "Started" /\ task = "start" /\ prescaler = 4095

\* what the public API shows of the registers a caller configured
C11_SameConfiguration ==
    /\ cc' = hist.cc
    /\ prescaler' = hist.prescaler
    /\ inten' = hist.inten
    /\ evten' = hist.evten

\* what get_counter and get_event_triggered show
C11_SameReadings ==
    /\ counter' = hist.counter
    /\ events' = hist.events

\* C11 (as claimed): disable_counter right after enable_counter on a Stopped
\* wrapper leaves the mode Stopped and every value the public API shows
\* (counter, event flags, compare, prescaler, interrupt and event enables) as
\* it was before the enable_counter.
C11_EnableDisableEquivalent ==
    [][(op'.name = "disable_counter" /\ hist.open) =>
          (mode' = "Stopped" /\ C11_SameConfiguration /\ C11_SameReadings)]_vars

\* C11 (amended): the pair leaves the mode Stopped and the compare, prescaler,
\* interrupt-enable and event-enable registers as they were; the counter value
\* and the event flags are as they were when the peripheral neither advanced
\* the counter nor latched a flag between the two calls.
C11_EnableDisableKeepsConfiguration ==
    [][(op'.name = "disable_counter" /\ hist.open) =>
          /\ mode' = "Stopped"
          /\ C11_SameConfiguration
          /\ hist.quiet => C11_SameReadings]_vars

\* a pair enable_counter, disable_counter completed on a configured wrapper
\* whose counter had advanced earlier, the peripheral idle in between
C11_Witness ==
    /\ op.name = "disable_counter" /\ op.pair
    /\ mode = "Stopped" /\ counter = 1 /\ prescaler = 4095

\* C12: the physical instance is held either as the free handle or by one
\* wrapper, never both and never neither; constrain has consumed the handle,
\* release has ended the wrapper and given the handle back.
C12_OneOwner ==
    /\ handle <=> (mode = "none")
    /\ op.name = "constrain" => (~handle /\ mode = "Stopped")
    /\ op.name = "release" => (handle /\ mode = "none")

\* the handle was constrained again after a release
C12_Witness ==
    op.name = "constrain" /\ ~handle /\ mode = "Stopped" /\ task = "stop"

\* C13: release is taken in either mode and changes no hardware register:
\* counter task, enables, event flags, compare values, prescaler, counter.
C13_ReleaseKeepsRegisters ==
    [][op'.name = "release" =>
          /\ mode \in {"Stopped", "Started"}
          /\ UNCHANGED <<task, inten, evten, events, cc, prescaler, counter>>]_vars

\* a Started wrapper with a running counter and a written prescaler was released
C13_Witness ==
    op.name = "release" /\ task = "start" /\ prescaler = 4095 /\ handle

\* C14: constrain returns a wrapper tagged Stopped that owns the handle,
\* without an error and without changing any hardware register, the running
\* state of the counter included.
C14_ConstrainNoHardwareAccess ==
    [][op'.name = "constrain" =>
          /\ handle /\ ~handle'
          /\ mode' = "Stopped"
          /\ op'.ret = "unit"
          /\ UNCHANGED <<task, inten, evten, events, cc, prescaler, counter>>]_vars

\* a peripheral whose counter runs was constrained
C14_Witness ==
    op.name = "constrain" /\ mode = "Stopped" /\ task = "start"

\* C15: after enable_interrupt(s) the interrupt-enable bit of s is set, after
\* disable_interrupt(s) it is clear, and the bits of the other stimuli are as
\* before.
C15_InterruptEnableBit ==
    [][/\ op'.name = "enable_interrupt" => op'.evt \in inten'
       /\ op'.name = "disable_interrupt" => op'.evt \notin inten'
       /\ op'.name \in {"enable_interrupt", "disable_interrupt"} =>
              \A other \in RtcInterrupt \ {op'.evt} :
                  (other \in inten') <=> (other \in inten)]_vars

\* disable_interrupt cleared the bit on a Started wrapper whose event-enable
\* bit of the same stimulus stays set
C15_Witness ==
    /\ op.name = "disable_interrupt" /\ op.evt \notin inten /\ op.evt \in evten
    /\ mode = "Started"

\* C16: enable_event(s) sets and disable_event(s) clears the event-enable bit
\* of s only and no interrupt-enable bit changes; enable_interrupt and
\* disable_interrupt change no event-enable bit.
C16_EventsIndependentOfInterrupts ==
    [][/\ op'.name = "enable_event" => op'.evt \in evten'
       /\ op'.name = "disable_event" => op'.evt \notin evten'
       /\ op'.name \in {"enable_event", "disable_event"} =>
              /\ inten' = inten
              /\ \A other \in RtcInterrupt \ {op'.evt} :
                     (other \in evten') <=> (other \in evten)
       /\ op'.name \in {"enable_interrupt", "disable_interrupt"} => evten' = evten]_vars

\* enable_event set the event-enable bit of a stimulus whose interrupt is disabled
C16_Witness ==
    op.name = "enable_event" /\ evten = {op.evt} /\ inten = {} /\ mode = "Stopped"

C19_ReadWithoutClearKeepsFlag ==
    [][(op'.name = "get_event_triggered" /\ ~pc.clear /\ ~pc.trig) =>
          events'[pc.evt] = events[pc.evt]]_vars

\* the tag of the live wrapper says whether the last counter task was start
C20_Tracks == (mode = "Started") <=> (task = "start")

\* C20: a wrapper constrained while the counter is stopped is tagged Started
\* exactly when the last counter task is start, after every operation up to
\* its release: the agreement holds after such a constrain and every step of
\* a live wrapper keeps it.
C20_ModeTracksHardware ==
    [][/\ (op'.name = "constrain" /\ task # "start") => C20_Tracks'
       /\ (mode \in {"Stopped", "Started"} /\ C20_Tracks /\ mode' \in {"Stopped", "Started"})
              => C20_Tracks']_vars

\* a wrapper constrained after the counter was stopped was started again and
\* then configured
C20_Witness ==
    /\ op.name = "set_compare" /\ op.ret = "Ok"
    /\ mode = "Started" /\ task = "start"
====
